---------------------------- MODULE Spec2Model ----------------------------
(***************************************************************************)
(* Model of newspaper_ocr/llm_as_ocr/schema.py: the two field validators   *)
(* of NewspaperText that carry logic, parse_date_string (published_date)   *)
(* and format_content (content), together with the s2hk validator that     *)
(* runs on the same content field.                                         *)
(*                                                                         *)
(* A Python str is a sequence of one-character strings.  A Python int is   *)
(* a record [n, over]: over = 0 and n the value when the value fits a C    *)
(* int, over = 1 (-1) when it lies above (below) the C int range, which    *)
(* is all datetime.date needs to know about it.  A character outside ASCII *)
(* is the string naming its code point ("U+5E74").                         *)
(***************************************************************************)
EXTENDS Integers, Sequences, FiniteSets, TLC

VARIABLES
    v,                  \* parse_date_string: the argument
    dpc,                \* parse_date_string: "call" before the call, "done" after
    branch,             \* parse_date_string: which if/elif arm was taken
    parts,              \* parse_date_string: the local `parts`
    result,             \* parse_date_string: value returned / exception raised
    raw,                \* the content the record was constructed with
    content,            \* the content field as the validators chain it
    ran,                \* the content validators that have completed, in order
    cpc,                \* "new", "idle" between validators, "loop" in the generator
    lines,              \* concatenate_sentences: text.splitlines()
    idx,                \* concatenate_sentences: number of lines consumed
    current_sentence,   \* concatenate_sentences: the accumulator
    emitted             \* concatenate_sentences: the values yielded so far

dateVars == <<v, dpc, branch, parts, result>>
contentVars == <<raw, content, ran, cpc, lines, idx, current_sentence, emitted>>
vars == <<v, dpc, branch, parts, result,
          raw, content, ran, cpc, lines, idx, current_sentence, emitted>>

---------------------------------------------------------------------------
(* Bounds of the model.                                                    *)

\* A date string holds at most MaxSegs markers (delimiters and CJK markers),
\* with a numeral or nothing before the first and after the last, and a
\* numeral between two of them.
MaxSegs == 3
\* A content string has at most MaxLen characters.
MaxLen == 6

---------------------------------------------------------------------------
(* Python str primitives, on sequences of characters.                      *)

\* The characters str.strip() removes and int() skips at both ends.
WhiteSpace == {" ", "\n", "\r"}

\* `c in s` for a one-character c.
Contains(s, c) == \E k \in 1..Len(s) : s[k] = c

\* The first index (from 1) of c in s; c occurs in s.
FirstIndex(s, c) == CHOOSE k \in 1..Len(s) : s[k] = c /\ \A j \in 1..(k-1) : s[j] # c

\* s.split(c) for a one-character separator c; SplitAt cuts s at the
\* occurrence k of c and splits what follows.
RECURSIVE Split(_, _)
SplitAt(s, c, k) == <<SubSeq(s, 1, k - 1)>> \o Split(SubSeq(s, k + 1, Len(s)), c)

Split(s, c) == IF ~Contains(s, c) THEN <<s>> ELSE SplitAt(s, c, FirstIndex(s, c))

\* s.strip()
RECURSIVE Strip(_)
Strip(s) ==
    IF s = <<>> THEN s
    ELSE IF Head(s) \in WhiteSpace THEN Strip(Tail(s))
    ELSE IF s[Len(s)] \in WhiteSpace THEN Strip(SubSeq(s, 1, Len(s) - 1))
    ELSE s

\* s.startswith(p)
StartsWith(s, p) == Len(s) >= Len(p) /\ SubSeq(s, 1, Len(p)) = p

---------------------------------------------------------------------------
(* Python int(str) and datetime.date(year, month, day).                    *)

\* The largest C int: date() takes its arguments as C ints.
INT_MAX == 2147483647
MINYEAR == 1
MAXYEAR == 9999

Digits == {"0", "1", "2", "3", "4", "5", "6", "7", "8", "9"}

DigitVal(c) ==
    CASE c = "0" -> 0 [] c = "1" -> 1 [] c = "2" -> 2 [] c = "3" -> 3
      [] c = "4" -> 4 [] c = "5" -> 5 [] c = "6" -> 6 [] c = "7" -> 7
      [] c = "8" -> 8 [] c = "9" -> 9

\* What a digit d adds to the magnitude hi of the digits before it: the value
\* when at most INT_MAX, -1 when exactly INT_MAX + 1 (which still fits a C int
\* when negated), -2 above.
AddDigit(hi, d) ==
    IF hi < 0 THEN -2
    ELSE IF hi < INT_MAX \div 10 THEN hi * 10 + d
    ELSE IF hi > INT_MAX \div 10 THEN -2
    ELSE IF d <= INT_MAX % 10 THEN hi * 10 + d
    ELSE IF d = (INT_MAX % 10) + 1 THEN -1
    ELSE -2

\* The magnitude of the characters of t from position k on, hi being that of
\* the digits before; -3 when one of them is no digit.
RECURSIVE Magnitude(_, _, _)
Magnitude(t, k, hi) ==
    IF k > Len(t) THEN hi
    ELSE IF t[k] \notin Digits THEN -3
    ELSE Magnitude(t, k + 1, AddDigit(hi, DigitVal(t[k])))

\* The Python int of magnitude m (as Magnitude gives it) and sign neg; ok is
\* FALSE when the literal is malformed.
Signed(m, neg) ==
    IF m = -3 THEN [ok |-> FALSE, n |-> 0, over |-> 0]
    ELSE IF m >= 0 THEN [ok |-> TRUE, n |-> IF neg THEN 0 - m ELSE m, over |-> 0]
    ELSE IF m = -1 /\ neg THEN [ok |-> TRUE, n |-> (0 - INT_MAX) - 1, over |-> 0]
    ELSE [ok |-> TRUE, n |-> 0, over |-> IF neg THEN -1 ELSE 1]

\* int() of a string without surrounding white space: an optional sign and
\* at least one digit.
IntOfStripped(t) ==
    IF t = <<>> THEN Signed(-3, FALSE)
    ELSE IF t[1] \in {"+", "-"}
         THEN IF Len(t) = 1 THEN Signed(-3, FALSE)
              ELSE Signed(Magnitude(t, 2, 0), t[1] = "-")
    ELSE Signed(Magnitude(t, 1, 0), FALSE)

\* int(s): ok is FALSE when it raises ValueError.
PyInt(s) == IntOfStripped(Strip(s))

\* x > 12 for a Python int x.
GreaterThan12(x) == x.over = 1 \/ (x.over = 0 /\ x.n > 12)

IsLeap(y) == y % 4 = 0 /\ (y % 100 # 0 \/ y % 400 = 0)

DaysInMonth(y, m) ==
    IF m = 2 THEN (IF IsLeap(y) THEN 29 ELSE 28)
    ELSE IF m \in {4, 6, 9, 11} THEN 30
    ELSE 31

\* The values a field of the record can hold.
StrValue(s) == [kind |-> "str", text |-> s, year |-> 0, month |-> 0, day |-> 0]
DateValue(y, m, d) == [kind |-> "date", text |-> <<>>, year |-> y, month |-> m, day |-> d]
Raised(e) == [kind |-> e, text |-> <<>>, year |-> 0, month |-> 0, day |-> 0]
NoneValue == [kind |-> "None", text |-> <<>>, year |-> 0, month |-> 0, day |-> 0]
NoValue == [kind |-> "unset", text |-> <<>>, year |-> 0, month |-> 0, day |-> 0]

\* The range check of date(year, month, day) on C ints.
DateFieldsOk(y, m, d) ==
    /\ MINYEAR <= y /\ y <= MAXYEAR
    /\ 1 <= m /\ m <= 12
    /\ 1 <= d /\ d <= DaysInMonth(y, m)

\* date(year, month, day): OverflowError when an argument does not fit a C
\* int, ValueError when the fields are out of range, the date otherwise.
date(y, m, d) ==
    IF y.over # 0 \/ m.over # 0 \/ d.over # 0 THEN Raised("OverflowError")
    ELSE IF ~DateFieldsOk(y.n, m.n, d.n) THEN Raised("ValueError")
    ELSE DateValue(y.n, m.n, d.n)

\* date(a, b, c) inside `try`, for a, b, c the outcomes of int(): a
\* ValueError of int() or of date() is the outcome "ValueError".
TryDate(a, b, c) ==
    IF a.ok /\ b.ok /\ c.ok THEN date(a, b, c) ELSE Raised("ValueError")

---------------------------------------------------------------------------
(* NewspaperText.parse_date_string                                         *)

\* The markers of the Chinese date format.
YearMark == "U+5E74"
MonthMark == "U+6708"
DayMark == "U+65E5"

HasCJKMarkers(s) == Contains(s, YearMark) /\ Contains(s, MonthMark) /\ Contains(s, DayMark)
HasDelimiter(s) == Contains(s, "/") \/ Contains(s, "-")

\* The arm of the if/elif the argument selects.
BranchOf(x) ==
    IF x.kind = "str" /\ HasCJKMarkers(x.text) THEN "cjk"
    ELSE IF x.kind = "str" /\ HasDelimiter(x.text) THEN "delimited"
    ELSE "none"

\* The try of the Chinese date format arm.
CJKAttempt(s) ==
    TryDate(PyInt(Split(s, YearMark)[1]),
            PyInt(Split(Split(s, YearMark)[2], MonthMark)[1]),
            PyInt(Split(Split(s, MonthMark)[2], DayMark)[1]))

\* Mutant of PartsOf: "-" is preferred to "/".
PartsOfPrefersDash(s) == IF Contains(s, "-") THEN Split(s, "-") ELSE Split(s, "/")

\* parts = v.split("/") if "/" in v else v.split("-")
PartsOf(s) == IF Contains(s, "/") THEN Split(s, "/") ELSE Split(s, "-")

\* Mutant of ReadParts: without a 4-character first part the date is
\* always read month-first.
ReadPartsMonthFirst(len0, a, b, c) ==
    IF len0 = 4 THEN TryDate(a, b, c)
    ELSE IF ~b.ok THEN Raised("ValueError")
    ELSE TryDate(c, a, b)

\* The try of the delimited arm on three parts, a, b, c being int() of the
\* parts and len0 the length of the first.
ReadParts(len0, a, b, c) ==
    IF len0 = 4 THEN TryDate(a, b, c)
    ELSE IF ~b.ok THEN Raised("ValueError")
    ELSE IF GreaterThan12(b) THEN TryDate(c, a, b)
    ELSE TryDate(c, b, a)

\* The try of the delimited arm; "none" when it falls through to `return v`
\* with nothing raised.
DelimitedAttempt(p) ==
    IF Len(p) # 3 THEN Raised("none")
    ELSE ReadParts(Len(p[1]), PyInt(p[1]), PyInt(p[2]), PyInt(p[3]))

\* Mutant of Outcome: the final `return v` is missing, so the call returns
\* None when the try did not return.
OutcomeNoFallback(x, attempt) ==
    IF attempt.kind \in {"date", "OverflowError"} THEN attempt ELSE NoneValue

\* What the call makes of an arm's try: the date it returned, the exception
\* `except ValueError` does not catch, or the argument (`return v`).
Outcome(x, attempt) ==
    IF attempt.kind \in {"date", "OverflowError"} THEN attempt ELSE x

\* The local `parts` once arm b was taken (empty when it is never assigned).
PartsIn(x, b) == IF b = "delimited" THEN PartsOf(x.text) ELSE <<>>

\* What the call makes of x: arm b was taken, and p is `parts`.
ReturnOf(x, b, p) ==
    IF b = "cjk" THEN Outcome(x, CJKAttempt(x.text))
    ELSE IF b = "delimited" THEN Outcome(x, DelimitedAttempt(p))
    ELSE x

\* The whole validator as a function of its argument.
parse_date_string(x) == ReturnOf(x, BranchOf(x), PartsIn(x, BranchOf(x)))

---------------------------------------------------------------------------
(* The arguments parse_date_string is called with.                         *)

BigNumeral == <<"9", "9", "9", "9", "9", "9", "9", "9", "9", "9">>
Numerals == { <<"2">>, <<"0", "0", "1", "2">>, <<"2", "9">>, BigNumeral }
Markers == {"/", "-", YearMark, MonthMark, DayMark}

\* The concatenation of the (text, marker) pairs f[1], ..., f[k].
RECURSIVE JoinSegments(_, _)
JoinSegments(f, k) ==
    IF k = 0 THEN <<>> ELSE JoinSegments(f, k - 1) \o f[k][1] \o <<f[k][2]>>

\* Values that are already dates.
DateObjects == {DateValue(2024, 2, 29), DateValue(1999, 12, 31)}

\* The validator is about to be called with v; no content is being validated.
InitDate ==
    /\ \/ \E lead \in {<<>>} \cup {<<c>> : c \in Markers} :
             \E k \in 0..(MaxSegs - Len(lead)) :
                \E f \in [1..k -> Numerals \X Markers] :
                   \E t \in Numerals \cup {<<>>} :
                      v = StrValue(lead \o JoinSegments(f, k) \o t)
       \/ v \in DateObjects
    /\ dpc = "call"
    /\ branch = "unset"
    /\ parts = <<>>
    /\ result = NoValue
    /\ raw = <<>> /\ content = <<>> /\ ran = <<>> /\ cpc = "unused"
    /\ lines = <<>> /\ idx = 0 /\ current_sentence = <<>> /\ emitted = <<>>

\* The call NewspaperText.parse_date_string(v).
ParseDateString ==
    /\ dpc = "call"
    /\ branch' = BranchOf(v)
    /\ parts' = PartsIn(v, branch')
    /\ result' = ReturnOf(v, branch', parts')
    /\ dpc' = "done"
    /\ UNCHANGED <<v, contentVars>>

---------------------------------------------------------------------------
(* s2hk and NewspaperText.format_content                                   *)

\* OpenCC's s2hk table on the characters of the model: the simplified
\* U+56FD becomes the traditional U+570B, everything else is kept.
ConvertChar(c) == IF c = "U+56FD" THEN "U+570B" ELSE c

s2hk(s) == [k \in 1..Len(s) |-> ConvertChar(s[k])]

ending_symbols ==
    {".", "U+3002", "!", "?", ":", ";", "U+300D", "U+300F", "U+FF09", ")",
     "U+300B", "\"", "'", "*"}

\* The characters at which str.splitlines() breaks a line.
LineBreaks == {"\n", "\r"}

\* text.splitlines(): "\r\n" is one break, and a final break opens no line.
RECURSIVE splitlines(_)
splitlines(s) ==
    IF s = <<>> THEN <<>>
    ELSE IF \A k \in 1..Len(s) : s[k] \notin LineBreaks THEN <<s>>
    ELSE LET k == CHOOSE j \in 1..Len(s) :
                       s[j] \in LineBreaks /\ \A h \in 1..(j-1) : s[h] \notin LineBreaks
             w == IF s[k] = "\r" /\ k < Len(s) /\ s[k + 1] = "\n" THEN 2 ELSE 1
         IN  <<SubSeq(s, 1, k - 1)>> \o splitlines(SubSeq(s, k + w, Len(s)))

\* "\n".join(entries)
RECURSIVE JoinLines(_)
JoinLines(entries) ==
    IF entries = <<>> THEN <<>>
    ELSE IF Len(entries) = 1 THEN entries[1]
    ELSE entries[1] \o <<"\n">> \o JoinLines(Tail(entries))

\* Mutant of ProcessLine: the ending symbol is looked for at the end of the
\* new line instead of the end of the accumulator.
ProcessLineTestsNewLine(cur, line) ==
    IF Strip(line) = <<>>
    THEN [cur |-> <<>>, out |-> (IF cur # <<>> THEN <<cur>> ELSE <<>>) \o << <<>> >>]
    ELSE IF cur = <<>> THEN [cur |-> line, out |-> <<>>]
    ELSE IF line[Len(line)] \in ending_symbols \/ StartsWith(line, <<"*", "*">>)
    THEN [cur |-> line, out |-> <<cur>>]
    ELSE [cur |-> cur \o line, out |-> <<>>]

\* Mutant of ProcessLine: a heading line is not a boundary.
ProcessLineNoHeading(cur, line) ==
    IF Strip(line) = <<>>
    THEN [cur |-> <<>>, out |-> (IF cur # <<>> THEN <<cur>> ELSE <<>>) \o << <<>> >>]
    ELSE IF cur = <<>> THEN [cur |-> line, out |-> <<>>]
    ELSE IF cur[Len(cur)] \in ending_symbols
    THEN [cur |-> line, out |-> <<cur>>]
    ELSE [cur |-> cur \o line, out |-> <<>>]

\* Mutant of ProcessLine: a blank line yields its empty entry only when a
\* sentence was pending.
ProcessLineBlankOnlyAfterText(cur, line) ==
    IF Strip(line) = <<>>
    THEN [cur |-> <<>>, out |-> IF cur # <<>> THEN <<cur, <<>> >> ELSE <<>>]
    ELSE IF cur = <<>> THEN [cur |-> line, out |-> <<>>]
    ELSE IF cur[Len(cur)] \in ending_symbols \/ StartsWith(line, <<"*", "*">>)
    THEN [cur |-> line, out |-> <<cur>>]
    ELSE [cur |-> cur \o line, out |-> <<>>]

\* Mutant of ProcessLine: the stripped line is what is kept.
ProcessLineKeepsStripped(cur, line) ==
    IF Strip(line) = <<>>
    THEN [cur |-> <<>>, out |-> (IF cur # <<>> THEN <<cur>> ELSE <<>>) \o << <<>> >>]
    ELSE IF cur = <<>> THEN [cur |-> Strip(line), out |-> <<>>]
    ELSE IF cur[Len(cur)] \in ending_symbols \/ StartsWith(line, <<"*", "*">>)
    THEN [cur |-> Strip(line), out |-> <<cur>>]
    ELSE [cur |-> cur \o Strip(line), out |-> <<>>]

\* One iteration of the for loop of concatenate_sentences: the accumulator
\* after it and the values it yields.
ProcessLine(cur, line) ==
    IF Strip(line) = <<>>
    THEN [cur |-> <<>>, out |-> (IF cur # <<>> THEN <<cur>> ELSE <<>>) \o << <<>> >>]
    ELSE IF cur = <<>> THEN [cur |-> line, out |-> <<>>]
    ELSE IF cur[Len(cur)] \in ending_symbols \/ StartsWith(line, <<"*", "*">>)
    THEN [cur |-> line, out |-> <<cur>>]
    ELSE [cur |-> cur \o line, out |-> <<>>]

\* What the generator yields after the loop.
FinalYield(cur) == IF cur # <<>> THEN <<cur>> ELSE <<>>

\* list(concatenate_sentences(text)), given the lines still to read, the
\* accumulator and what was yielded so far.
RECURSIVE Generate(_, _, _)
Generate(ls, cur, out) ==
    IF ls = <<>> THEN out \o FinalYield(cur)
    ELSE LET r == ProcessLine(cur, Head(ls))
         IN  Generate(Tail(ls), r.cur, out \o r.out)

concatenate_sentences(text) == Generate(splitlines(text), <<>>, <<>>)

\* format_content as a function of its argument.
format_content(c) == JoinLines(concatenate_sentences(c))

\* Mutant of ContentValidators: format_content is declared first.
ContentValidatorsReflowFirst == <<"format_content", "s2hk_validator">>

\* The mode="after" validators of the field `content`, in the order pydantic
\* runs them: the order in which the class body declares them.
ContentValidators == <<"s2hk_validator", "format_content">>

ContentChars == {"U+56FD", ".", "*", " ", "\n", "\r"}

\* No record is being constructed yet, and no date is being validated.
InitContent ==
    /\ v = NoValue /\ dpc = "unused" /\ branch = "unset" /\ parts = <<>>
    /\ result = NoValue
    /\ raw = <<>>
    /\ content = <<>>
    /\ ran = <<>>
    /\ cpc = "new"
    /\ lines = <<>>
    /\ idx = 0
    /\ current_sentence = <<>>
    /\ emitted = <<>>

NextValidator ==
    IF Len(ran) < Len(ContentValidators) THEN ContentValidators[Len(ran) + 1] ELSE "none"

\* NewspaperText(content=c, ...): the field holds the extracted text.
Construct ==
    /\ cpc = "new"
    /\ \E k \in 0..MaxLen : \E c \in [1..k -> ContentChars] :
          /\ raw' = c
          /\ content' = c
    /\ cpc' = "idle"
    /\ UNCHANGED <<ran, lines, idx, current_sentence, emitted, dateVars>>

\* NewspaperText.s2hk_validator on the field content.
S2hkValidator ==
    /\ cpc = "idle"
    /\ NextValidator = "s2hk_validator"
    /\ content' = s2hk(content)
    /\ ran' = Append(ran, "s2hk_validator")
    /\ UNCHANGED <<raw, cpc, lines, idx, current_sentence, emitted, dateVars>>

\* format_content is entered: the generator starts on content.splitlines().
FormatContentCall ==
    /\ cpc = "idle"
    /\ NextValidator = "format_content"
    /\ lines' = splitlines(content)
    /\ idx' = 0
    /\ current_sentence' = <<>>
    /\ emitted' = <<>>
    /\ cpc' = "loop"
    /\ UNCHANGED <<raw, content, ran, dateVars>>

\* One iteration of `for line in text.splitlines()`.
NextLine ==
    /\ cpc = "loop"
    /\ idx < Len(lines)
    /\ LET r == ProcessLine(current_sentence, lines[idx + 1])
       IN  /\ current_sentence' = r.cur
           /\ emitted' = emitted \o r.out
    /\ idx' = idx + 1
    /\ UNCHANGED <<raw, content, ran, cpc, lines, dateVars>>

\* The loop is over: the pending sentence is yielded, the list is joined
\* and format_content returns.
FormatContentReturn ==
    /\ cpc = "loop"
    /\ idx = Len(lines)
    /\ emitted' = emitted \o FinalYield(current_sentence)
    /\ content' = JoinLines(emitted')
    /\ ran' = Append(ran, "format_content")
    /\ cpc' = "idle"
    /\ UNCHANGED <<raw, lines, idx, current_sentence, dateVars>>

---------------------------------------------------------------------------
(* Specifications: the date validator, and the validators of content.     *)

NextDate == ParseDateString

SpecDate == InitDate /\ [][NextDate]_vars

NextContent ==
    \/ Construct
    \/ S2hkValidator
    \/ FormatContentCall
    \/ NextLine
    \/ FormatContentReturn

SpecContent == InitContent /\ [][NextContent]_vars

---------------------------------------------------------------------------
(* What the claims speak of.                                               *)

\* The days of month m of year y in the Gregorian calendar.
GregorianDays(y, m) ==
    CASE m \in {1, 3, 5, 7, 8, 10, 12} -> 31
      [] m \in {4, 6, 9, 11} -> 30
      [] m = 2 /\ y % 400 = 0 -> 29
      [] m = 2 /\ y % 400 # 0 /\ y % 100 = 0 -> 28
      [] m = 2 /\ y % 100 # 0 /\ y % 4 = 0 -> 29
      [] OTHER -> 28

\* (y, m, d), Python ints, form a date of the calendar.
ValidCalendarDate(y, m, d) ==
    /\ y.over = 0 /\ m.over = 0 /\ d.over = 0
    /\ y.n \in 1..9999
    /\ m.n \in 1..12
    /\ d.n \in 1..GregorianDays(y.n, m.n)

Exact(n) == [ok |-> TRUE, n |-> n, over |-> 0]

AllInts(a, b, c) == PyInt(a).ok /\ PyInt(b).ok /\ PyInt(c).ok

\* The date of three Python ints.
DateOf(y, m, d) == DateValue(y.n, m.n, d.n)

\* The split the delimited format is described with.
DelimiterOf(s) == IF Contains(s, "/") THEN "/" ELSE "-"

\* The <<year, month, day>> the delimited rule reads in the three integers
\* p, the first part being len0 characters long.
DelimitedReading(len0, p) ==
    IF len0 = 4 THEN <<p[1], p[2], p[3]>>
    ELSE IF GreaterThan12(p[2]) THEN <<p[3], p[1], p[2]>>
    ELSE <<p[3], p[2], p[1]>>

\* The (year, month, day) texts of the CJK format.
CJKReading(s) ==
    <<Split(s, YearMark)[1],
      Split(Split(s, YearMark)[2], MonthMark)[1],
      Split(Split(s, MonthMark)[2], DayMark)[1]>>

\* The texts r parse as integers that form a calendar date.
ReadsAsDate(r) ==
    /\ AllInts(r[1], r[2], r[3])
    /\ ValidCalendarDate(PyInt(r[1]), PyInt(r[2]), PyInt(r[3]))

DateDone == dpc = "done"

\* C1 -- parse_date_string is total: for every argument the call completes
\* with a return value and raises nothing.
C1_NeverRaises == DateDone => result.kind \in {"date", "str"}

\* C2 -- the value parse_date_string returns is a valid Gregorian date or
\* the argument itself, unchanged; a date argument is returned unchanged.
C2_ValidDateOrInput ==
    (DateDone /\ result.kind # "OverflowError") =>
        /\ \/ result = v
           \/ /\ result.kind = "date"
              /\ ValidCalendarDate(Exact(result.year), Exact(result.month), Exact(result.day))
        /\ v.kind = "date" => result = v

\* A string argument was turned into the leap day of a leap year.
C2_Witness ==
    /\ DateDone /\ v.kind = "str" /\ result.kind = "date"
    /\ result.month = 2 /\ result.day = 29

\* C3 -- with all three CJK markers present the delimited format is never
\* attempted, and when the CJK extraction does not parse or is no calendar
\* date the result is the argument unchanged.
C3_CJKExclusive ==
    (DateDone /\ v.kind = "str" /\ HasCJKMarkers(v.text)) =>
        /\ branch = "cjk"
        /\ parts = <<>>
        /\ ~ReadsAsDate(CJKReading(v.text)) => result = v

\* C4 -- three integer parts p0, p1, p2: year-first when p0 has 4
\* characters, else month-first when p1 > 12, else day-first; the date is
\* returned exactly when that reading is a calendar date.
C4_DelimitedReading ==
    (DateDone /\ branch = "delimited" /\ Len(parts) = 3) =>
        \A p \in {[i \in 1..3 |-> PyInt(parts[i])]} :
            (p[1].ok /\ p[2].ok /\ p[3].ok) =>
                \A r \in {DelimitedReading(Len(parts[1]), p)} :
                    IF ValidCalendarDate(r[1], r[2], r[3])
                    THEN result = DateOf(r[1], r[2], r[3])
                    ELSE result.kind # "date"

\* An ambiguous date (first and second part at most 12 and different, the
\* first not 4 characters long) was read day-first.
C4_Witness ==
    /\ DateDone /\ result.kind = "date" /\ Len(parts) = 3
    /\ Len(parts[1]) # 4
    /\ PyInt(parts[1]).ok /\ PyInt(parts[2]).ok
    /\ ~GreaterThan12(PyInt(parts[2]))
    /\ PyInt(parts[1]).n # PyInt(parts[2]).n
    /\ result.day = PyInt(parts[1]).n /\ result.month = PyInt(parts[2]).n

\* C8 -- without the three CJK markers, a string with "/" or "-" is split on
\* "/" when it holds one and on "-" otherwise, and when the split does not
\* give three parts the result is the argument unchanged.
C8_SplitChoice ==
    (DateDone /\ v.kind = "str" /\ ~HasCJKMarkers(v.text) /\ HasDelimiter(v.text)) =>
        /\ branch = "delimited"
        /\ parts = Split(v.text, DelimiterOf(v.text))
        /\ Len(parts) # 3 => result = v

\* A string with both delimiters whose split on "-" has three parts and
\* whose split on "/" has not: it is returned unchanged.
C8_Witness ==
    /\ DateDone /\ v.kind = "str" /\ branch = "delimited"
    /\ Contains(v.text, "/") /\ Contains(v.text, "-")
    /\ Len(Split(v.text, "-")) = 3
    /\ Len(parts) # 3
    /\ result = v

\* format_content has returned.
FormatDone == cpc = "idle" /\ \E k \in 1..Len(ran) : ran[k] = "format_content"

IsBlank(line) == \A k \in 1..Len(line) : line[k] \in WhiteSpace

\* The concatenation of the strings of a sequence.
RECURSIVE Flatten(_)
Flatten(ss) == IF ss = <<>> THEN <<>> ELSE Head(ss) \o Flatten(Tail(ss))

\* The non-blank strings of a sequence, in order.
RECURSIVE NonBlank(_)
NonBlank(ss) ==
    IF ss = <<>> THEN <<>>
    ELSE IF IsBlank(Head(ss)) THEN NonBlank(Tail(ss))
    ELSE <<Head(ss)>> \o NonBlank(Tail(ss))

\* The number of characters of the non-blank lines before line k.
OffsetOfLine(k) == Len(Flatten(NonBlank(SubSeq(lines, 1, k - 1))))

\* The character offsets at which the entries of es start.
EntryOffsets(es) == {Len(Flatten(SubSeq(es, 1, j - 1))) : j \in 1..Len(es)}

\* The ending symbols as the description of the reflow lists them.
ListedEndingSymbols ==
    {".", "U+3002", "!", "?", ":", ";", "U+300D", "U+300F", "U+FF09", ")",
     "U+300B", "\"", "'", "*"}

\* The loop reads its next line, LineRead.
ReadsLine == cpc = "loop" /\ idx < Len(lines) /\ idx' = idx + 1
LineRead == lines[idx + 1]

\* The step of the reflow on a non-blank line with a pending accumulator.
C5_Step ==
    (ReadsLine /\ ~IsBlank(LineRead) /\ current_sentence # <<>>) =>
        IF \/ current_sentence[Len(current_sentence)] \in ListedEndingSymbols
           \/ (Len(LineRead) >= 2 /\ LineRead[1] = "*" /\ LineRead[2] = "*")
        THEN /\ emitted' = Append(emitted, current_sentence)
             /\ current_sentence' = LineRead
        ELSE /\ emitted' = emitted
             /\ current_sentence' = current_sentence \o LineRead

\* After the last line the pending accumulator is emitted.
C5_Flush ==
    (cpc = "loop" /\ cpc' = "idle") =>
        emitted' = IF current_sentence # <<>> THEN Append(emitted, current_sentence)
                   ELSE emitted

\* Every line that begins with "**" starts an emitted entry.
C5_HeadingsStartEntries ==
    FormatDone =>
        \A k \in 1..Len(lines) :
            (Len(lines[k]) >= 2 /\ lines[k][1] = "*" /\ lines[k][2] = "*") =>
                /\ OffsetOfLine(k) \in EntryOffsets(NonBlank(emitted))
                /\ \E j \in 1..Len(emitted) : StartsWith(emitted[j], lines[k])

\* C5 -- a non-blank line met with a pending accumulator splits (the
\* accumulator is emitted, the line starts a new one) when the accumulator
\* ends with an ending symbol or the line begins with "**", and is appended
\* with no separator otherwise; so every "**" line starts an emitted entry,
\* and the pending accumulator is emitted after the last line.
C5_Reflow == [][C5_Step /\ C5_Flush]_vars /\ []C5_HeadingsStartEntries

\* A heading split a sentence that had no terminal punctuation.
C5_Witness ==
    /\ FormatDone
    /\ \E k \in 2..Len(lines) :
          /\ StartsWith(lines[k], <<"*", "*">>)
          /\ ~IsBlank(lines[k - 1])
          /\ lines[k - 1][Len(lines[k - 1])] \notin ListedEndingSymbols
          /\ \E j \in 2..Len(emitted) : emitted[j - 1] = lines[k - 1] /\ emitted[j] = lines[k]

\* The step of the reflow on a blank line.
C6_Step ==
    (ReadsLine /\ IsBlank(LineRead)) =>
        /\ emitted' = emitted
                      \o (IF current_sentence # <<>> THEN <<current_sentence>> ELSE <<>>)
                      \o << <<>> >>
        /\ current_sentence' = <<>>

\* The runs of ss between the entries that blank marks, each flattened.
RECURSIVE Paragraphs(_, _, _)
Paragraphs(ss, blank, acc) ==
    IF ss = <<>> THEN <<acc>>
    ELSE IF blank[1] THEN <<acc>> \o Paragraphs(Tail(ss), Tail(blank), <<>>)
    ELSE Paragraphs(Tail(ss), Tail(blank), acc \o Head(ss))

\* The empty entries are as many as the blank lines, and between two of
\* them the entries hold exactly the lines between the two blank lines.
C6_BreaksKept ==
    FormatDone =>
        /\ Cardinality({j \in 1..Len(emitted) : emitted[j] = <<>>})
             = Cardinality({k \in 1..Len(lines) : IsBlank(lines[k])})
        /\ Paragraphs(emitted, [j \in 1..Len(emitted) |-> emitted[j] = <<>>], <<>>)
             = Paragraphs(lines, [k \in 1..Len(lines) |-> IsBlank(lines[k])], <<>>)

\* C6 -- a blank line flushes the pending accumulator as its own entry and
\* then always emits one empty entry; the empty entries are as many as the
\* blank lines and no entry holds content from both sides of a blank line.
C6_BlankLines == [][C6_Step]_vars /\ []C6_BreaksKept

\* Text, two blank lines, text: two empty entries were emitted.
C6_Witness ==
    /\ FormatDone
    /\ \E k \in 2..(Len(lines) - 2) :
          /\ ~IsBlank(lines[k - 1]) /\ IsBlank(lines[k])
          /\ IsBlank(lines[k + 1]) /\ ~IsBlank(lines[k + 2])
    /\ Cardinality({j \in 1..Len(emitted) : emitted[j] = <<>>}) = 2

\* Where format_content ran in the chain.
ReflowRanBeforeS2hk ==
    \A k \in 1..Len(ran) :
        ran[k] = "s2hk_validator" => \E j \in 1..(k - 1) : ran[j] = "format_content"

S2hkRanBeforeReflow ==
    \A k \in 1..Len(ran) :
        ran[k] = "format_content" => \E j \in 1..(k - 1) : ran[j] = "s2hk_validator"

\* C7 as stated -- the reflow runs on the original extracted text and s2hk
\* is applied to the content after the reflow, not before.
C7_ReflowThenS2hk ==
    /\ cpc = "loop" => lines = splitlines(raw)
    /\ ReflowRanBeforeS2hk

\* C7 as amended -- s2hk is applied to the extracted text first and the
\* reflow runs on the converted content.
C7_S2hkThenReflow ==
    /\ cpc = "loop" => (ran = <<"s2hk_validator">> /\ lines = splitlines(s2hk(raw)))
    /\ S2hkRanBeforeReflow

\* Both validators ran on a text the conversion changes.
C7_Witness ==
    /\ FormatDone
    /\ Len(ran) = 2
    /\ s2hk(raw) # raw
    /\ Len(lines) >= 2

\* Every non-blank line lies whole in one entry: the entries es are the
\* flattened pieces of a cut of the lines ls into runs.
RECURSIVE WholeLines(_, _)
WholeLines(es, ls) ==
    IF es = <<>> THEN ls = <<>>
    ELSE \E n \in 1..Len(ls) :
            /\ Flatten(SubSeq(ls, 1, n)) = Head(es)
            /\ WholeLines(Tail(es), SubSeq(ls, n + 1, Len(ls)))

\* C9 -- the reflow conserves content: the entries, concatenated, are the
\* non-blank lines, concatenated, and each non-blank line lies whole in
\* exactly one entry.
C9_Conserves ==
    /\ cpc = "loop" =>
          Flatten(emitted) \o current_sentence = Flatten(NonBlank(SubSeq(lines, 1, idx)))
    /\ FormatDone =>
          /\ Flatten(emitted) = Flatten(NonBlank(lines))
          /\ WholeLines(NonBlank(emitted), NonBlank(lines))

\* Two lines with white space at their outer ends were merged into one entry.
C9_Witness ==
    /\ FormatDone
    /\ \E k \in 1..(Len(lines) - 1) :
          /\ ~IsBlank(lines[k]) /\ ~IsBlank(lines[k + 1])
          /\ lines[k][1] = " "
          /\ lines[k + 1][Len(lines[k + 1])] = " "
          /\ \E j \in 1..Len(emitted) : emitted[j] = lines[k] \o lines[k + 1]

\* C10 as stated -- reflow(reflow(x)) = reflow(x) for every x.
C10_Idempotent == FormatDone => format_content(content) = content

\* C10 as amended -- reflow(reflow(x)) = reflow(x) for every x whose last
\* line is not blank.
C10_IdempotentNoTrailingBlank ==
    (FormatDone /\ (lines = <<>> \/ ~IsBlank(lines[Len(lines)]))) =>
        format_content(content) = content

\* A text that begins with a blank line and whose lines the reflow merged.
C10_Witness ==
    /\ FormatDone
    /\ Len(lines) >= 3
    /\ IsBlank(lines[1])
    /\ ~IsBlank(lines[Len(lines)])
    /\ Len(emitted) < Len(lines)
    /\ format_content(content) = content

=============================================================================
